---- MODULE Spec2Model ----
(***************************************************************************)
(* Model of three parts of the repository: the AIService worker pool of    *)
(* src/ai_service.py (specification SpecService, FairService), the NDJSON  *)
(* generators of /api/overpass_stream and /api/overpass_chunks of          *)
(* src/app.py (specification SpecStreams), and the OSM feature pipeline of *)
(* src/translation.py (specification Spec):                                *)
(*   parse_height, extract_elements, is_building, get_icon_for_element,    *)
(*   get_elevation, lonLatToMeters, process_element, process_osm_json and  *)
(*   the static ICON_MAP.                                                  *)
(*                                                                         *)
(* Numbers: tag values and coordinates are integers (metres, degrees).     *)
(* A Python float that is a quotient (the centroid) is kept as the exact   *)
(* fraction [num, den]; None is the record with isNone = TRUE.             *)
(* Strings: a tag value is a TLA+ string; Chars gives its characters, and  *)
(* the string methods of safe_float work on that character sequence.       *)
(***************************************************************************)
EXTENDS Integers, Sequences, FiniteSets, TLC

VARIABLES
    json_string,   \* argument of process_osm_json
    pc,            \* position of the process_osm_json call
    osm_data,      \* result of json.loads
    all_elements,  \* result of extract_elements
    processed,     \* the list the comprehension of process_osm_json builds
    exc,           \* exception that left process_osm_json ("" when none)
    elev_log,      \* the get_elevation calls, in call order: arguments and result
    tags,          \* argument of a direct parse_height / get_icon_for_element call
    fn,            \* position of that direct call
    height_info,   \* result of the direct parse_height call
    icon,          \* result of the direct get_icon_for_element call
    main,          \* AIService: position of the caller of start() and stop()
    stopping,      \* AIService.stopping (the Event is set)
    queue,         \* AIService.queue, oldest item first
    workers,       \* AIService.workers: position of each _worker_loop task
    reqs,          \* the AIRequest objects and their result futures
    metrics,       \* AIService.metrics
    semaphore,     \* value of each adapter's semaphore
    endpoint,      \* the streaming endpoint that answers a request
    gen_pc,        \* position of its generator
    tiles,         \* the tiles in the order the generator visits them
    tile_i,        \* index of the tile of the current pass of the loop
    lines,         \* the NDJSON lines the generator has yielded
    req_count,     \* req_count of api_overpass_chunks.gen
    max_requests,  \* max_requests of api_overpass_chunks
    fetch_log      \* the fetch_overpass_cached calls, in call order

vars == <<json_string, pc, osm_data, all_elements, processed, exc, elev_log,
          tags, fn, height_info, icon,
          main, stopping, queue, workers, reqs, metrics, semaphore,
          endpoint, gen_pc, tiles, tile_i, lines, req_count, max_requests, fetch_log>>

streamVars == <<endpoint, gen_pc, tiles, tile_i, lines, req_count, max_requests, fetch_log>>

serviceVars == <<main, stopping, queue, workers, reqs, metrics, semaphore>>

pipelineVars == <<json_string, pc, osm_data, all_elements, processed, exc, elev_log>>
callVars == <<tags, fn, height_info, icon>>

\* what a step of the AIService, and a step of a stream, leaves alone
notServiceVars == <<pipelineVars, callVars, streamVars>>
notStreamVars == <<pipelineVars, callVars, serviceVars>>

-----------------------------------------------------------------------------
(* Python values *)

None == [isNone |-> TRUE, val |-> 0]
Some(n) == [isNone |-> FALSE, val |-> n]

\* A tag mapping is a dict: a sequence of [k, v] with distinct keys, in
\* insertion (= iteration) order.
Keys(t) == {t[i].k : i \in 1..Len(t)}
HasKey(t, key) == key \in Keys(t)
IndexOf(t, key) == CHOOSE i \in 1..Len(t) : t[i].k = key
\* dict.get(key, default)
Get(t, key, default) == IF HasKey(t, key) THEN t[IndexOf(t, key)].v ELSE default

\* The characters of the tag values the model draws from.
Chars ==
    ("" :> <<>>) @@
    ("15m" :> <<"1", "5", "m">>) @@
    ("15 M" :> <<"1", "5", " ", "M">>) @@
    (" 15 " :> <<" ", "1", "5", " ">>) @@
    ("1m5" :> <<"1", "m", "5">>) @@
    ("m12" :> <<"m", "1", "2">>) @@
    ("1 5" :> <<"1", " ", "5">>) @@
    ("3" :> <<"3">>) @@
    ("4" :> <<"4">>) @@
    ("20" :> <<"2", "0">>) @@
    ("-5" :> <<"-", "5">>) @@
    ("-2" :> <<"-", "2">>) @@
    ("+3" :> <<"+", "3">>) @@
    ("-" :> <<"-">>) @@
    ("abc" :> <<"a", "b", "c">>) @@
    ("yes" :> <<"y", "e", "s">>)

Digit == ("0" :> 0) @@ ("1" :> 1) @@ ("2" :> 2) @@ ("3" :> 3) @@ ("4" :> 4) @@
         ("5" :> 5) @@ ("6" :> 6) @@ ("7" :> 7) @@ ("8" :> 8) @@ ("9" :> 9)

\* str.lower() (the only cased letter of the alphabet in use is M)
Lower(s) == [i \in 1..Len(s) |-> IF s[i] = "M" THEN "m" ELSE s[i]]

\* str.replace("m", ""): every occurrence is removed
ReplaceM(s) == SelectSeq(s, LAMBDA c : c # "m")

RECURSIVE LStrip(_)
LStrip(s) == IF s # <<>> /\ Head(s) = " " THEN LStrip(Tail(s)) ELSE s

RECURSIVE RStrip(_)
RStrip(s) == IF s # <<>> /\ s[Len(s)] = " " THEN RStrip(SubSeq(s, 1, Len(s) - 1)) ELSE s

\* str.strip()
Strip(s) == LStrip(RStrip(s))

RECURSIVE DigitsValue(_)
DigitsValue(s) == IF s = <<>> THEN 0 ELSE DigitsValue(SubSeq(s, 1, Len(s) - 1)) * 10 + Digit[s[Len(s)]]

AllDigits(s) == s # <<>> /\ \A i \in 1..Len(s) : s[i] \in DOMAIN Digit

\* float(s) on the sign-and-digits strings of the alphabet in use: the value,
\* or None where float raises ValueError.
Float(s) ==
    IF AllDigits(s) THEN Some(DigitsValue(s))
    ELSE IF s # <<>> /\ Head(s) = "-" /\ AllDigits(Tail(s)) THEN Some(0 - DigitsValue(Tail(s)))
    ELSE IF s # <<>> /\ Head(s) = "+" /\ AllDigits(Tail(s)) THEN Some(DigitsValue(Tail(s)))
    ELSE None

\* Tag values that are not strings (a JSON number, null): value.lower() raises
\* AttributeError on them.
NonStrings == {"<number 15>", "<null>"}

safe_float(value) ==
    IF value \in NonStrings THEN None
    ELSE Float(Strip(ReplaceM(Lower(Chars[value]))))

Max(a, b) == IF a >= b THEN a ELSE b

MetresPerLevel == 3
DefaultBuildingHeight == 10

\* the subtraction without the clamp at zero
EffectiveHeight_noClamp(height, min_height) == height - min_height

EffectiveHeight(height, min_height) == Max(0, height - min_height)

\* building:levels taking precedence over a parsed height tag
ResolveHeight_levelsFirst(h0, levels, has_building) ==
    IF ~levels.isNone THEN levels.val * MetresPerLevel
    ELSE IF ~h0.isNone THEN h0.val
    ELSE IF has_building THEN DefaultBuildingHeight ELSE 0

\* `if height is None and levels is not None` and `if height is None`
ResolveHeight(h0, levels, has_building) ==
    LET h1 == IF h0.isNone /\ ~levels.isNone THEN Some(levels.val * MetresPerLevel) ELSE h0
    IN IF h1.isNone
       THEN (IF has_building THEN DefaultBuildingHeight ELSE 0)
       ELSE h1.val

\* `if min_height is None and min_levels is not None` and `if min_height is None`
ResolveMinHeight(m0, min_levels) ==
    LET m1 == IF m0.isNone /\ ~min_levels.isNone THEN Some(min_levels.val * MetresPerLevel) ELSE m0
    IN IF m1.isNone THEN 0 ELSE m1.val

parse_height(t) ==
    LET h0 == safe_float(Get(t, "height", ""))
        m0 == safe_float(Get(t, "min_height", Get(t, "building:min_height", "")))
        levels == safe_float(Get(t, "building:levels", ""))
        min_levels == safe_float(Get(t, "building:min_level", ""))
        height == ResolveHeight(h0, levels, HasKey(t, "building"))
        min_height == ResolveMinHeight(m0, min_levels)
    IN [height |-> height,
        min_height |-> min_height,
        effective_height |-> EffectiveHeight(height, min_height)]

-----------------------------------------------------------------------------
(* Icon classification *)

ICON_MAP ==
    ("amenity" :>
       (
        ("bar" :> "icons/amenity_recreational.svg") @@
        ("bbq" :> "icons/amenity_recreational.svg") @@
        ("brothel" :> "icons/amenity_recreational.svg") @@
        ("cafe" :> "icons/amenity_recreational.svg") @@
        ("cinema" :> "icons/amenity_recreational.svg") @@
        ("food_court" :> "icons/amenity_recreational.svg") @@
        ("marketplace" :> "icons/amenity_recreational.svg") @@
        ("nightclub" :> "icons/amenity_recreational.svg") @@
        ("restaurant" :> "icons/amenity_recreational.svg") @@
        ("swinger_club" :> "icons/amenity_recreational.svg") @@
        ("theatre" :> "icons/amenity_recreational.svg") @@
        ("vending_machine" :> "icons/amenity_recreational.svg") @@
        ("bicycle_parking" :> "icons/amenity_vehicle.svg") @@
        ("bicycle_rental" :> "icons/amenity_vehicle.svg") @@
        ("car_rental" :> "icons/amenity_vehicle.svg") @@
        ("car_sharing" :> "icons/amenity_vehicle.svg") @@
        ("fuel" :> "icons/amenity_vehicle.svg") @@
        ("parking" :> "icons/amenity_vehicle.svg") @@
        ("charging_station" :> "icons/amenity_charging_station.svg") @@
        ("clinic" :> "icons/health.svg") @@
        ("dentist" :> "icons/health.svg") @@
        ("doctors" :> "icons/health.svg") @@
        ("hospital" :> "icons/health.svg") @@
        ("pharmacy" :> "icons/health.svg") @@
        ("college" :> "icons/amenity_education.svg") @@
        ("kindergarten" :> "icons/amenity_education.svg") @@
        ("school" :> "icons/amenity_education.svg") @@
        ("courthouse" :> "icons/amenity_public_building.svg") @@
        ("fire_station" :> "icons/emergency_fire_station.svg") @@
        ("police" :> "icons/emergency_police.svg") @@
        ("ferry_terminal" :> "icons/amenity_ferry_terminal.svg") @@
        ("grave_yard" :> "icons/amenity_grave_yard.svg") @@
        ("library" :> "icons/amenity_library.svg") @@
        ("place_of_worship" :> "icons/amenity_place_of_worship.svg") @@
        ("post_box" :> "icons/amenity_post.svg") @@
        ("post_office" :> "icons/amenity_post.svg") @@
        ("prison" :> "icons/amenity_prison.svg") @@
        ("public_building" :> "icons/amenity_public_building.svg") @@
        ("recycling" :> "icons/amenity_recycling.svg") @@
        ("shelter" :> "icons/amenity_shelter.svg") @@
        ("taxi" :> "icons/amenity_taxi.svg") @@
        ("telephone" :> "icons/amenity_telephone.svg") @@
        ("toilets" :> "icons/amenity_toilets.svg") @@
        ("townhall" :> "icons/amenity_public_building.svg") @@
        ("drinking_water" :> "icons/water.svg") @@
        ("water_point" :> "icons/water.svg") @@
        ("_default" :> "icons/amenity.svg"))) @@
    ("natural" :>
       (
        ("_default" :> "icons/natural.svg"))) @@
    ("emergency" :>
       (
        ("ambulance_station" :> "icons/emergency_ambulance_station.svg") @@
        ("fire_station" :> "icons/emergency_fire_station.svg") @@
        ("lifeguard_station" :> "icons/emergency_lifeguard_station.svg") @@
        ("police" :> "icons/emergency_police.svg") @@
        ("first_aid" :> "icons/emergency_first_aid.svg") @@
        ("defibrillator" :> "icons/emergency_first_aid.svg") @@
        ("assembly_point" :> "icons/emergency_assembly_point.svg") @@
        ("_default" :> "icons/emergency.svg"))) @@
    ("aerialway" :>
       (
        ("_default" :> "icons/aerialway.svg"))) @@
    ("aeroway" :>
       (
        ("_default" :> "icons/aerialway.svg"))) @@
    ("barrier" :>
       (
        ("_default" :> "icons/barrier.svg"))) @@
    ("boundary" :>
       (
        ("_default" :> "icons/barrier.svg"))) @@
    ("building" :>
       (
        ("_default" :> "icons/building.svg"))) @@
    ("craft" :>
       (
        ("_default" :> "icons/craft.svg"))) @@
    ("geological" :>
       (
        ("_default" :> "icons/geological.svg"))) @@
    ("healthcare" :>
       (
        ("_default" :> "icons/health.svg"))) @@
    ("highway" :>
       (
        ("_default" :> "icons/highway.svg"))) @@
    ("historic" :>
       (
        ("_default" :> "icons/historic.svg"))) @@
    ("landuse" :>
       (
        ("_default" :> "icons/landuse.svg"))) @@
    ("leisure" :>
       (
        ("_default" :> "icons/leisure.svg"))) @@
    ("man_made" :>
       (
        ("_default" :> "icons/man_made.svg"))) @@
    ("military" :>
       (
        ("_default" :> "icons/military.svg"))) @@
    ("office" :>
       (
        ("_default" :> "icons/office.svg"))) @@
    ("place" :>
       (
        ("_default" :> "icons/place.svg"))) @@
    ("power" :>
       (
        ("_default" :> "icons/power.svg"))) @@
    ("public_transport" :>
       (
        ("_default" :> "icons/public_transport.svg"))) @@
    ("railway" :>
       (
        ("_default" :> "icons/route.svg"))) @@
    ("route" :>
       (
        ("_default" :> "icons/route.svg"))) @@
    ("shop" :>
       (
        ("_default" :> "icons/shop.svg"))) @@
    ("telecom" :>
       (
        ("_default" :> "icons/telecom.svg"))) @@
    ("tourism" :>
       (
        ("_default" :> "icons/tourism.svg"))) @@
    ("water" :>
       (
        ("_default" :> "icons/water.svg"))) @@
    ("waterway" :>
       (
        ("_default" :> "icons/water.svg"))) @@
    ("_global_default" :>
       (
        ("_default" :> "icons/default.svg")))

KeyError == "<KeyError>"

\* d[k1][k2] of a nested dict, KeyError when a key is missing
Index2(d, k1, k2) ==
    IF k1 \in DOMAIN d /\ k2 \in DOMAIN d[k1] THEN d[k1][k2] ELSE KeyError

\* d[k1].get(key, default), the default being evaluated (and raising) first
SubGet(d, k1, key, default) ==
    IF default = KeyError \/ k1 \notin DOMAIN d THEN KeyError
    ELSE IF key \in DOMAIN d[k1] THEN d[k1][key] ELSE default

recreation_list ==
    {"bar", "bbq", "brothel", "cafe", "cinema", "food_court",
     "marketplace", "nightclub", "restaurant", "swinger_club",
     "theatre", "vending_machine"}

\* the fallback looked up under a misspelt key
GlobalFallback_wrongKey(icon_map) == Index2(icon_map, "_global_default", "default")

\* the fallback taken from the amenity sub-table
GlobalFallback_amenityDefault(icon_map) == Index2(icon_map, "amenity", "_default")

GlobalFallback(icon_map) == Index2(icon_map, "_global_default", "_default")

\* the other-keys branch looking the tag's value up instead of '_default'
MatchIcon_byValue(key, value, icon_map) ==
    IF key = "amenity" THEN
        SubGet(icon_map, "amenity", value, Index2(icon_map, "amenity", "_default"))
    ELSE IF key = "emergency" THEN
        SubGet(icon_map, "emergency", value, Index2(icon_map, "emergency", "_default"))
    ELSE IF key = "natural" THEN
        Index2(icon_map, "natural", "_default")
    ELSE
        SubGet(icon_map, key, value, GlobalFallback(icon_map))

\* an unlisted amenity value falling back to the global default
MatchIcon_amenityGlobal(key, value, icon_map) ==
    IF key = "amenity" THEN
        SubGet(icon_map, "amenity", value, GlobalFallback(icon_map))
    ELSE IF key = "emergency" THEN
        SubGet(icon_map, "emergency", value, Index2(icon_map, "emergency", "_default"))
    ELSE IF key = "natural" THEN
        Index2(icon_map, "natural", "_default")
    ELSE
        SubGet(icon_map, key, "_default", GlobalFallback(icon_map))

\* what one iteration of the loop returns for a key that matches
MatchIcon(key, value, icon_map) ==
    IF key = "amenity" THEN
        IF value \in recreation_list
        THEN SubGet(icon_map, "amenity", value, Index2(icon_map, "amenity", "_default"))
        ELSE SubGet(icon_map, "amenity", value, Index2(icon_map, "amenity", "_default"))
    ELSE IF key = "emergency" THEN
        SubGet(icon_map, "emergency", value, Index2(icon_map, "emergency", "_default"))
    ELSE IF key = "natural" THEN
        Index2(icon_map, "natural", "_default")
    ELSE
        SubGet(icon_map, key, "_default", GlobalFallback(icon_map))

\* whether an iteration of the loop returns for this key
Matches(key, icon_map) ==
    key = "amenity" \/ key = "emergency" \/ key = "natural" \/ key \in DOMAIN icon_map

\* the loop letting the last matching key decide
IconLoop_lastMatch(t, i, icon_map) ==
    LET M == {j \in i..Len(t) : Matches(t[j].k, icon_map)}
    IN IF M = {} THEN GlobalFallback(icon_map)
       ELSE LET j == CHOOSE j \in M : \A k \in M : k <= j
            IN MatchIcon(t[j].k, t[j].v, icon_map)

\* the for loop over tags.items(), from position i on
RECURSIVE IconLoop(_, _, _)
IconLoop(t, i, icon_map) ==
    IF i > Len(t) THEN GlobalFallback(icon_map)
    ELSE IF Matches(t[i].k, icon_map) THEN MatchIcon(t[i].k, t[i].v, icon_map)
    ELSE IconLoop(t, i + 1, icon_map)

ElementTags(element) == element.tags

get_icon_for_element(element, icon_map) == IconLoop(ElementTags(element), 1, icon_map)

-----------------------------------------------------------------------------
(* Extraction *)

\* osm_json.get('elements', [])
ElementsOf(data) == IF data.has_elements THEN data.elements ELSE <<>>

\* the node table built from every record, whatever its type
NodePositions_allRecords(elements) == 1..Len(elements)

NodePositions(elements) == {i \in 1..Len(elements) : elements[i].type = "node"}

\* keys of the dict comprehension `nodes`
NodeIds(elements) == {elements[i].id : i \in NodePositions(elements)}

\* nodes[nid]: a later node record with the same id replaces an earlier one
NodeOf(elements, nid) ==
    LET last == CHOOSE i \in NodePositions(elements) :
                    /\ elements[i].id = nid
                    /\ \A j \in NodePositions(elements) : elements[j].id = nid => j <= i
    IN elements[last]

RECURSIVE ResolvePoints(_, _)
ResolvePoints(refs, elements) ==
    IF refs = <<>> THEN <<>>
    ELSE (IF Head(refs) \in NodeIds(elements)
          THEN <<[lat |-> NodeOf(elements, Head(refs)).lat,
                  lon |-> NodeOf(elements, Head(refs)).lon]>>
          ELSE <<>>) \o ResolvePoints(Tail(refs), elements)

\* the way's tags not carried over
TagsOf_empty(el) == <<>>

\* el.get('tags', {})
TagsOf(el) == IF el.has_tags THEN el.tags ELSE <<>>

\* a way emitted whether or not a point resolved
Emits_anyWay(el, points) == el.type = "way"

\* `if el['type'] == 'way'` and `if points`
Emits(el, points) == el.type = "way" /\ points # <<>>

\* the loop putting each new element in front of the list
RECURSIVE ExtractLoop_prepend(_, _)
ExtractLoop_prepend(elements, n) ==
    IF n = 0 THEN <<>>
    ELSE LET el == elements[n]
             points == ResolvePoints(el.nodes, elements)
         IN (IF Emits(el, points)
             THEN <<[points |-> points, tags |-> TagsOf(el), id |-> el.id, type |-> el.type]>>
             ELSE <<>>) \o ExtractLoop_prepend(elements, n - 1)

\* the loop of extract_elements over the first n records
RECURSIVE ExtractLoop(_, _)
ExtractLoop(elements, n) ==
    IF n = 0 THEN <<>>
    ELSE LET el == elements[n]
             points == ResolvePoints(el.nodes, elements)
         IN ExtractLoop(elements, n - 1) \o
            (IF Emits(el, points)
             THEN <<[points |-> points, tags |-> TagsOf(el), id |-> el.id, type |-> el.type]>>
             ELSE <<>>)

extract_elements(osm_json) == ExtractLoop(ElementsOf(osm_json), Len(ElementsOf(osm_json)))

is_building(element) == HasKey(element.tags, "building")

-----------------------------------------------------------------------------
(* Elevation lookup, projection, process_element *)

\* What the elevation service answers to one request.
Responses ==
    {[kind |-> "network_error", elevation |-> 0],   \* requests.get raises
     [kind |-> "malformed", elevation |-> 0],       \* r.json() raises
     [kind |-> "no_results", elevation |-> 0],      \* no 'results' key, or an empty list
     [kind |-> "no_elevation", elevation |-> 0],    \* results[0] without 'elevation'
     [kind |-> "null", elevation |-> 0],            \* results[0]['elevation'] is null
     [kind |-> "value", elevation |-> 5]}

get_elevation(lat, lon, resp) ==
    IF resp.kind = "network_error" THEN [raised |-> "ConnectionError", value |-> None]
    ELSE IF resp.kind = "malformed" THEN [raised |-> "requests.JSONDecodeError", value |-> None]
    ELSE IF resp.kind = "value" THEN [raised |-> "", value |-> Some(resp.elevation)]
    ELSE IF resp.kind = "null" THEN [raised |-> "", value |-> None]
    ELSE [raised |-> "", value |-> Some(0)]

RECURSIVE Sum(_, _)
Sum(points, field) ==
    IF points = <<>> THEN 0 ELSE points[1][field] + Sum(Tail(points), field)

\* the sum divided by the number of distinct points
Mean_distinctCount(points, field) ==
    [num |-> Sum(points, field), den |-> Cardinality({points[i] : i \in 1..Len(points)})]

\* sum(...) / len(...), as the exact fraction
Mean(points, field) == [num |-> Sum(points, field), den |-> Len(points)]

\* math.log raises ValueError when tan((90 + lat) * pi / 360) is not positive:
\* for lat <= -90 and for lat > 90 degrees.
LogDomainError(lat) == lat.num <= (0 - 90) * lat.den \/ lat.num > 90 * lat.den

\* x is kept in units of RADIUS * pi / 180; y is kept as the latitude whose
\* Mercator ordinate it is.
lonLatToMeters(lon, lat) ==
    IF LogDomainError(lat) THEN [raised |-> "ValueError", x |-> lon, y |-> lat]
    ELSE [raised |-> "", x |-> lon, y |-> lat]

ZeroHeight == [height |-> 0, min_height |-> 0, effective_height |-> 0]

\* height resolution applied to every element
HeightOf_always(element) == parse_height(element.tags)

HeightOf(element) == IF is_building(element) THEN parse_height(element.tags) ELSE ZeroHeight

\* [raised, feature]: the exception that leaves process_element ("" when it
\* returns) and the feature it returns.
process_element(element, icon_map, resp) ==
    LET lat == Mean(element.points, "lat")
        lon == Mean(element.points, "lon")
        elev == get_elevation(lat, lon, resp)
        hi == HeightOf(element)
        ic == get_icon_for_element(element, icon_map)
        xy == lonLatToMeters(lon, lat)
        raised == IF elev.raised # "" THEN elev.raised
                  ELSE IF ic = KeyError THEN "KeyError"
                  ELSE xy.raised
    IN [raised |-> raised,
        feature |-> [id |-> element.id,
                     points |-> element.points,
                     centroid |-> [lat |-> lat, lon |-> lon],
                     xy |-> [x |-> xy.x, y |-> xy.y],
                     base_elev |-> elev.value,
                     height |-> hi.height,
                     min_height |-> hi.min_height,
                     effective_height |-> hi.effective_height,
                     tags |-> element.tags,
                     icon |-> ic]]

\* the call get_elevation(lat, lon) of the first point of the element
ElevationCall_firstPoint(element, resp) ==
    LET lat == [num |-> element.points[1].lat, den |-> 1]
        lon == [num |-> element.points[1].lon, den |-> 1]
    IN [lat |-> lat, lon |-> lon, returned |-> get_elevation(lat, lon, resp).value]

\* the call get_elevation(lat, lon) process_element makes: its arguments and
\* the value it returns (None also when it raises)
ElevationCall(element, resp) ==
    LET lat == Mean(element.points, "lat")
        lon == Mean(element.points, "lon")
    IN [lat |-> lat, lon |-> lon, returned |-> get_elevation(lat, lon, resp).value]

-----------------------------------------------------------------------------
(* Inputs *)

MaxElements == 3
MaxTags == 3

SeqsUpTo(S, n) == UNION {[1..m -> S] : m \in 0..n}

Tag(k, v) == [k |-> k, v |-> v]

Node(id, lat, lon) ==
    [type |-> "node", id |-> id, lat |-> lat, lon |-> lon,
     nodes |-> <<>>, has_tags |-> FALSE, tags |-> <<>>]

\* A record that is not a node has no coordinates of its own: lat/lon stand
\* for keys of the record that extraction must not read.
Other(type, id, refs, has_tags, t) ==
    [type |-> type, id |-> id, lat |-> 50, lon |-> 60,
     nodes |-> refs, has_tags |-> has_tags, tags |-> t]

BuildingTags == <<Tag("building", "yes"), Tag("height", "15m"), Tag("min_height", "20")>>
PlainTags ==
    <<Tag("height", "15m"), Tag("min_height", "3"), Tag("building:levels", "4"),
      Tag("amenity", "cafe")>>

RefLists == {<<>>, <<3>>, <<1, 2>>, <<2, 3, 2>>}

NodeRecords == {Node(1, 10, 20), Node(2, 30, 40), Node(2, 0 - 90, 0)}

WayRecords ==
    {Other("way", 3, refs, FALSE, <<>>) : refs \in RefLists} \cup
    {Other("way", 3, refs, TRUE, PlainTags) : refs \in RefLists} \cup
    {Other("way", 7, refs, TRUE, BuildingTags) : refs \in RefLists}

Records == NodeRecords \cup WayRecords \cup {Other("relation", 1, <<1>>, FALSE, <<>>)}

NoData == [kind |-> "none", has_elements |-> FALSE, elements |-> <<>>]

JsonInputs ==
    {[kind |-> "invalid", has_elements |-> FALSE, elements |-> <<>>],   \* not JSON
     [kind |-> "array", has_elements |-> FALSE, elements |-> <<>>],     \* JSON, not an object
     [kind |-> "object", has_elements |-> FALSE, elements |-> <<>>]} \cup
    {[kind |-> "object", has_elements |-> TRUE, elements |-> e] :
        e \in SeqsUpTo(Records, MaxElements)}

Absent == "<absent>"

\* Opt(k, v): the one-tag mapping {k: v}, or the empty one when v is Absent
Opt(k, v) == IF v = Absent THEN <<>> ELSE <<Tag(k, v)>>

HeightTagMaps ==
    {Opt("building", b) \o Opt("height", h) \o Opt("min_height", m) \o
     Opt("building:min_height", bm) \o Opt("building:levels", l) \o
     Opt("building:min_level", ml) :
        b \in {Absent, "yes"},
        h \in {Absent, "15m", "15 M", " 15 ", "1m5", "m12", "1 5", "-5", "+3", "-", "abc", "", "<number 15>"},
        m \in {Absent, "3", "20", "-2", "abc", "<null>"},
        bm \in {Absent, "4", "abc"},
        l \in {Absent, "4", "-2", "abc"},
        ml \in {Absent, "3", "-2"}}

IconPairs ==
    {Tag("amenity", "restaurant"), Tag("amenity", "hospital"), Tag("amenity", "abc"),
     Tag("emergency", "police"), Tag("emergency", "abc"),
     Tag("natural", "yes"), Tag("natural", "abc"),
     Tag("building", "yes"), Tag("building", "abc"),
     Tag("name", "abc"),
     Tag("_global_default", "abc")}

IconTagMaps ==
    {t \in SeqsUpTo(IconPairs, MaxTags) :
        \A i, j \in 1..Len(t) : i # j => t[i].k # t[j].k}

\* one tag of every key of the table, alone or after a key the table lacks
CategoryTagMaps ==
    {pre \o <<Tag(k, v)>> :
        pre \in {<<>>, <<Tag("name", "abc")>>},
        k \in DOMAIN ICON_MAP,
        v \in {"yes", "abc"}}

\* an amenity tag with every value of the amenity sub-table and two unlisted
\* ones, alone or after a key the table lacks
AmenityTagMaps ==
    {pre \o <<Tag("amenity", v)>> :
        pre \in {<<>>, <<Tag("name", "abc")>>},
        v \in DOMAIN ICON_MAP["amenity"] \cup {"abc", "yes"}}

TagMaps == HeightTagMaps \cup IconTagMaps \cup CategoryTagMaps \cup AmenityTagMaps

-----------------------------------------------------------------------------
(* src/ai_service.py: AIService, its worker pool and the adapters.         *)
(* The service runs on one asyncio event loop: a task runs without         *)
(* interruption from one await that suspends to the next, so each action   *)
(* below is the code between two such awaits.  An unbounded asyncio.Queue  *)
(* never suspends in put(); a fresh asyncio.Lock never suspends in         *)
(* acquire().  metrics["avg_latency"] is a float average nothing reads;    *)
(* only the two counters are kept.                                         *)

WorkerCount == 2
MaxRequests == 3
MaxFairRequests == 2

\* the retries main_demo passes to submit
DemoRetries == 1

WorkerIds == 1..WorkerCount
RequestIds == 1..MaxRequests

\* the None that stop() puts on the queue
Sentinel == 0

\* the adapters dict handed to AIService: name -> concurrency of the
\* adapter's semaphore (the constructors' defaults)
Concurrency == [gemini |-> 2, local |-> 1]
Adapters == DOMAIN Concurrency

\* model names a caller passes to submit; "ollama" is the default and has
\* no adapter class
Models == Adapters \cup {"ollama"}

\* an AIRequest that submit has not created yet.  calls, outcome, sets and
\* late record what happened to it: the adapter.generate calls made for it,
\* how _process_request ended, the set_result calls on its future, and
\* whether it was put on the queue after stop() had put the sentinels.
NoRequest ==
    [state |-> "new", model |-> "", retries |-> 0, attempt |-> 0,
     calls |-> 0, outcome |-> "", result |-> "pending", result_attempt |-> 0,
     sets |-> 0, late |-> FALSE]

NoWorker == [pc |-> "none", req |-> 0]

\* AIService.__init__ and the adapters' __init__
InitAIService ==
    /\ main = "constructed"
    /\ stopping = FALSE
    /\ queue = <<>>
    /\ workers = [w \in WorkerIds |-> NoWorker]
    /\ reqs = [id \in RequestIds |-> NoRequest]
    /\ metrics = [processed |-> 0, failed |-> 0]
    /\ semaphore = Concurrency

\* start(): one _worker_loop task per index
Start ==
    /\ main = "constructed"
    /\ main' = "started"
    /\ workers' = [w \in WorkerIds |-> [pc |-> "get", req |-> 0]]
    /\ UNCHANGED <<stopping, queue, reqs, metrics, semaphore>>
    /\ UNCHANGED notServiceVars

\* stop() with a single sentinel for the whole pool
Stop_oneSentinel ==
    /\ main = "started"
    /\ stopping' = TRUE
    /\ queue' = Append(queue, Sentinel)
    /\ main' = "in_stop"
    /\ UNCHANGED <<workers, reqs, metrics, semaphore>>
    /\ UNCHANGED notServiceVars

\* stop() up to its await of asyncio.gather: the Event is set and one
\* sentinel per worker is put
Stop ==
    /\ main = "started"
    /\ stopping' = TRUE
    /\ queue' = queue \o [i \in 1..WorkerCount |-> Sentinel]
    /\ main' = "in_stop"
    /\ UNCHANGED <<workers, reqs, metrics, semaphore>>
    /\ UNCHANGED notServiceVars

\* asyncio.gather(*self.workers) completes and stop() returns
StopReturn ==
    /\ main = "in_stop"
    /\ \A w \in WorkerIds : workers[w].pc = "done"
    /\ main' = "stopped"
    /\ UNCHANGED <<stopping, queue, workers, reqs, metrics, semaphore>>
    /\ UNCHANGED notServiceVars

\* submit() up to its await of the result future.  The callers pass any
\* model and, as main_demo does, all the same retries.
Submit(id) ==
    /\ reqs[id].state = "new"
    /\ id > 1 => reqs[id - 1].state # "new"
    /\ \E model \in Models, retries \in 0..DemoRetries :
          /\ id > 1 => retries = reqs[id - 1].retries
          /\ reqs' = [reqs EXCEPT ![id] = [NoRequest EXCEPT !.state = "queued",
                                                         !.model = model,
                                                         !.retries = retries,
                                                         !.late = stopping]]
    /\ queue' = Append(queue, id)
    /\ UNCHANGED <<main, stopping, workers, metrics, semaphore>>
    /\ UNCHANGED notServiceVars

\* result_future.set_result(...) under `if not req.result_future.done()`
SetResult(r, kind) ==
    IF r.result = "pending"
    THEN [r EXCEPT !.result = kind, !.result_attempt = r.attempt, !.sets = @ + 1]
    ELSE r

\* one pass of the retry loop that enters the guarded section without
\* taking a slot of the semaphore
Attempt_noSemaphore(w, id, n) ==
    /\ reqs' = [reqs EXCEPT ![id].state = "processing",
                            ![id].attempt = n,
                            ![id].calls = @ + 1]
    /\ workers' = [workers EXCEPT ![w] = [pc |-> "generate", req |-> id]]
    /\ UNCHANGED semaphore

\* one pass of the retry loop up to the first suspension inside
\* adapter.generate: req.attempt is set, generate is called, and the
\* semaphore is acquired at once or waited for
Attempt(w, id, n) ==
    /\ reqs' = [reqs EXCEPT ![id].state = "processing",
                            ![id].attempt = n,
                            ![id].calls = @ + 1]
    /\ IF semaphore[reqs[id].model] > 0
       THEN /\ semaphore' = [semaphore EXCEPT ![reqs[id].model] = @ - 1]
            /\ workers' = [workers EXCEPT ![w] = [pc |-> "generate", req |-> id]]
       ELSE /\ workers' = [workers EXCEPT ![w] = [pc |-> "acquire", req |-> id]]
            /\ UNCHANGED semaphore

\* the except branch that ends the worker task
Failed_workerDies(w, id) ==
    /\ metrics' = [metrics EXCEPT !.failed = @ + 1]
    /\ reqs' = [reqs EXCEPT ![id] = [SetResult(@, "error") EXCEPT !.state = "finished",
                                                                   !.outcome = "raised"]]
    /\ workers' = [workers EXCEPT ![w] = [pc |-> "done", req |-> 0]]

\* the failure is counted as a processed request as well
Failed_countedTwice(w, id) ==
    /\ metrics' = [processed |-> metrics.processed + 1, failed |-> metrics.failed + 1]
    /\ reqs' = [reqs EXCEPT ![id] = [SetResult(@, "error") EXCEPT !.state = "finished",
                                                                   !.outcome = "raised"]]
    /\ workers' = [workers EXCEPT ![w] = [pc |-> "get", req |-> 0]]

\* _process_request raised: the except branch, the finally, and back to
\* the head of the loop
Failed(w, id) ==
    /\ metrics' = [metrics EXCEPT !.failed = @ + 1]
    /\ reqs' = [reqs EXCEPT ![id] = [SetResult(@, "error") EXCEPT !.state = "finished",
                                                                   !.outcome = "raised"]]
    /\ workers' = [workers EXCEPT ![w] = [pc |-> "get", req |-> 0]]

\* req = await self.queue.get(), then up to the next suspension
WorkerGet(w) ==
    /\ workers[w].pc = "get"
    /\ queue # <<>>
    /\ queue' = Tail(queue)
    /\ \/ /\ Head(queue) = Sentinel
          /\ workers' = [workers EXCEPT ![w] = [pc |-> "done", req |-> 0]]
          /\ UNCHANGED <<reqs, metrics, semaphore>>
       \/ /\ Head(queue) # Sentinel
          /\ reqs[Head(queue)].model \notin Adapters
          /\ Failed(w, Head(queue))
          /\ UNCHANGED semaphore
       \/ /\ Head(queue) # Sentinel
          /\ reqs[Head(queue)].model \in Adapters
          /\ Attempt(w, Head(queue), 0)
          /\ UNCHANGED metrics
    /\ UNCHANGED <<main, stopping>>
    /\ UNCHANGED notServiceVars

\* a generate call waiting in `async with self.semaphore` gets a slot
Acquire(w) ==
    /\ workers[w].pc = "acquire"
    /\ semaphore[reqs[workers[w].req].model] > 0
    /\ semaphore' = [semaphore EXCEPT ![reqs[workers[w].req].model] = @ - 1]
    /\ workers' = [workers EXCEPT ![w].pc = "generate"]
    /\ UNCHANGED <<main, stopping, queue, reqs, metrics>>
    /\ UNCHANGED notServiceVars

\* generate returns: the semaphore is released, the metrics are updated,
\* the future is resolved, task_done, and back to the head of the loop
GenerateReturn(w) ==
    /\ workers[w].pc = "generate"
    /\ semaphore' = [semaphore EXCEPT ![reqs[workers[w].req].model] = @ + 1]
    /\ metrics' = [metrics EXCEPT !.processed = @ + 1]
    /\ reqs' = [reqs EXCEPT ![workers[w].req] =
                  [SetResult(@, "response") EXCEPT !.state = "finished",
                                                   !.outcome = "returned"]]
    /\ workers' = [workers EXCEPT ![w] = [pc |-> "get", req |-> 0]]
    /\ UNCHANGED <<main, stopping, queue>>
    /\ UNCHANGED notServiceVars

\* generate raises inside the guarded section: the attempt has failed and
\* the worker sleeps the backoff
GenerateRaise(w) ==
    /\ workers[w].pc = "generate"
    /\ semaphore' = [semaphore EXCEPT ![reqs[workers[w].req].model] = @ + 1]
    /\ workers' = [workers EXCEPT ![w].pc = "backoff"]
    /\ UNCHANGED <<main, stopping, queue, reqs, metrics>>
    /\ UNCHANGED notServiceVars

\* asyncio.wait_for cancels the generate call: a call inside the guarded
\* section releases its slot, a call still waiting for one holds none
Timeout(w) ==
    /\ workers[w].pc \in {"acquire", "generate"}
    /\ semaphore' = IF workers[w].pc = "generate"
                    THEN [semaphore EXCEPT ![reqs[workers[w].req].model] = @ + 1]
                    ELSE semaphore
    /\ workers' = [workers EXCEPT ![w].pc = "backoff"]
    /\ UNCHANGED <<main, stopping, queue, reqs, metrics>>
    /\ UNCHANGED notServiceVars

\* the retry loop makes a pass also for attempt number retries + 1
Backoff_extraAttempt(w) ==
    /\ workers[w].pc = "backoff"
    /\ IF reqs[workers[w].req].attempt <= reqs[workers[w].req].retries
       THEN /\ Attempt(w, workers[w].req, reqs[workers[w].req].attempt + 1)
            /\ UNCHANGED metrics
       ELSE /\ Failed(w, workers[w].req)
            /\ UNCHANGED semaphore
    /\ UNCHANGED <<main, stopping, queue>>
    /\ UNCHANGED notServiceVars

\* the backoff sleep ends: the next pass of the retry loop, or after the
\* last pass the RuntimeError "All retries failed"
Backoff(w) ==
    /\ workers[w].pc = "backoff"
    /\ IF reqs[workers[w].req].attempt < reqs[workers[w].req].retries
       THEN /\ Attempt(w, workers[w].req, reqs[workers[w].req].attempt + 1)
            /\ UNCHANGED metrics
       ELSE /\ Failed(w, workers[w].req)
            /\ UNCHANGED semaphore
    /\ UNCHANGED <<main, stopping, queue>>
    /\ UNCHANGED notServiceVars

-----------------------------------------------------------------------------
(* src/app.py: the NDJSON generators of /api/overpass_stream and           *)
(* /api/overpass_chunks.  One action is one pass of the tile loop.  What    *)
(* Overpass answers to a query, and whether the assembly of a tile's        *)
(* elements raises, is chosen freely; a tile's features are kept as their   *)
(* number.                                                                  *)

MaxTiles == 3
MaxBudget == 3
MaxFeatures == 1

\* `if len(elems_t) > 5000` of overpass_stream
TileTooLarge == 5000

\* `count <= 1500` of overpass_chunks
FullFetchLimit == 1500

\* element counts an answer of Overpass may have
StreamCounts == {0, TileTooLarge, TileTooLarge + 1}
ChunkCounts == {0, FullFetchLimit, FullFetchLimit + 1}

\* center_dist of a tile: its distance to the anchor, in a unit of length
Distances == {0, 1}

\* one line of the response
Line(kind, what, tile, n) == [kind |-> kind, what |-> what, tile |-> tile, n |-> n]

\* the lines of n features of a tile
FeatureLines(tile, n) == [i \in 1..n |-> Line("feature", "", tile, i)]

\* the tiles in grid order, with the distances of their centres
TileGrids ==
    UNION {{[i \in 1..n |-> [id |-> i, center_dist |-> d[i]]] : d \in [1..n -> Distances]}
           : n \in 1..MaxTiles}

\* list.sort puts a tile behind the tiles that are not farther: it is stable
RECURSIVE InsertTile(_, _)
InsertTile(sorted, tile) ==
    IF sorted = <<>> THEN <<tile>>
    ELSE IF Head(sorted).center_dist <= tile.center_dist
         THEN <<Head(sorted)>> \o InsertTile(Tail(sorted), tile)
         ELSE <<tile>> \o sorted

\* the tile list left in grid order
SortTiles_unsorted(grid) == grid

\* tiles.sort(key=lambda x: x['center_dist'])
RECURSIVE SortTiles(_)
SortTiles(grid) ==
    IF grid = <<>> THEN <<>>
    ELSE InsertTile(SortTiles(SubSeq(grid, 1, Len(grid) - 1)), grid[Len(grid)])

\* the full geometry is fetched for every tile that is not empty
NeedsFullFetch_noUpperLimit(count) == count > 0

\* `if count > 0 and count <= 1500`
NeedsFullFetch(count) == count > 0 /\ count <= FullFetchLimit

\* no request is being answered
NoStream ==
    /\ endpoint = "none"
    /\ gen_pc = "idle"
    /\ tiles = <<>>
    /\ tile_i = 1
    /\ lines = <<>>
    /\ req_count = 0
    /\ max_requests = 0
    /\ fetch_log = <<>>

\* api_overpass_stream up to the Response: the tiles in grid order
InitOverpassStream ==
    /\ endpoint = "stream"
    /\ gen_pc = "loop"
    /\ tiles \in TileGrids
    /\ tile_i = 1
    /\ lines = <<>>
    /\ req_count = 0
    /\ max_requests = 0
    /\ fetch_log = <<>>

\* api_overpass_chunks up to the Response: max_requests is read and the
\* tiles are sorted by their distance
InitOverpassChunks ==
    /\ endpoint = "chunks"
    /\ gen_pc = "loop"
    /\ \E grid \in TileGrids : tiles = SortTiles(grid)
    /\ tile_i = 1
    /\ lines = <<>>
    /\ req_count = 0
    /\ max_requests \in 0..MaxBudget
    /\ fetch_log = <<>>

Fetched(query, ok) == [tile |-> tiles[tile_i].id, query |-> query, ok |-> ok]

\* one pass of the tile loop of api_overpass_stream.generate
StreamTile ==
    /\ endpoint = "stream"
    /\ gen_pc = "loop"
    /\ tile_i <= Len(tiles)
    /\ \/ /\ fetch_log' = Append(fetch_log, Fetched("geom", FALSE))
          /\ lines' = Append(lines, Line("_error", "overpass_failed", tiles[tile_i].id, 0))
          /\ tile_i' = tile_i + 1
          /\ UNCHANGED gen_pc
       \/ /\ fetch_log' = Append(fetch_log, Fetched("geom", TRUE))
          /\ \E count \in StreamCounts :
                \/ /\ count > TileTooLarge
                   /\ lines' = Append(lines, Line("_error", "tile_too_large", tiles[tile_i].id, count))
                   /\ tile_i' = tile_i + 1
                   /\ UNCHANGED gen_pc
                \/ /\ count <= TileTooLarge       \* assemble_features_from_elements raises
                   /\ gen_pc' = "raised"
                   /\ UNCHANGED <<lines, tile_i>>
                \/ /\ count <= TileTooLarge
                   /\ \E n \in 0..MaxFeatures :
                         lines' = lines \o FeatureLines(tiles[tile_i].id, n)
                   /\ tile_i' = tile_i + 1
                   /\ UNCHANGED gen_pc
    /\ UNCHANGED <<endpoint, tiles, req_count, max_requests>>
    /\ UNCHANGED notStreamVars

\* the loops of api_overpass_stream.generate are over: the done record
StreamDone ==
    /\ endpoint = "stream"
    /\ gen_pc = "loop"
    /\ tile_i > Len(tiles)
    /\ lines' = Append(lines, Line("_meta", "done", 0, 0))
    /\ gen_pc' = "done"
    /\ UNCHANGED <<endpoint, tiles, tile_i, req_count, max_requests, fetch_log>>
    /\ UNCHANGED notStreamVars

\* one pass of the tile loop of api_overpass_chunks.gen
ChunksTile ==
    /\ endpoint = "chunks"
    /\ gen_pc = "loop"
    /\ tile_i <= Len(tiles)
    /\ \/ /\ req_count >= max_requests            \* break
          /\ lines' = Append(lines, Line("_error", "request_budget_exceeded",
                                         tiles[tile_i].id, req_count))
          /\ gen_pc' = "after_loop"
          /\ UNCHANGED <<tile_i, req_count, fetch_log>>
       \/ /\ req_count < max_requests             \* the ids-only query fails
          /\ fetch_log' = Append(fetch_log, Fetched("ids", FALSE))
          /\ lines' = Append(lines, Line("_error", "overpass_failed", tiles[tile_i].id, 0))
          /\ tile_i' = tile_i + 1
          /\ UNCHANGED <<gen_pc, req_count>>
       \/ /\ req_count < max_requests
          /\ \E count \in ChunkCounts :
                LET summary == Line("_tile_summary", "", tiles[tile_i].id, count)
                IN \/ /\ ~NeedsFullFetch(count)
                      /\ fetch_log' = Append(fetch_log, Fetched("ids", TRUE))
                      /\ req_count' = req_count + 1
                      /\ lines' = Append(lines, summary)
                   \/ /\ NeedsFullFetch(count)    \* the full query fails
                      /\ fetch_log' = fetch_log \o <<Fetched("ids", TRUE), Fetched("geom", FALSE)>>
                      /\ req_count' = req_count + 1
                      /\ lines' = lines \o <<summary,
                                    Line("_error", "overpass_failed", tiles[tile_i].id, 0)>>
                   \/ /\ NeedsFullFetch(count)    \* the assembly raises
                      /\ fetch_log' = fetch_log \o <<Fetched("ids", TRUE), Fetched("geom", TRUE)>>
                      /\ req_count' = req_count + 2
                      /\ lines' = lines \o <<summary,
                                    Line("_error", "assembly_failed", tiles[tile_i].id, 0)>>
                   \/ /\ NeedsFullFetch(count)
                      /\ fetch_log' = fetch_log \o <<Fetched("ids", TRUE), Fetched("geom", TRUE)>>
                      /\ req_count' = req_count + 2
                      /\ \E n \in 0..MaxFeatures :
                            lines' = lines \o <<summary>> \o FeatureLines(tiles[tile_i].id, n)
          /\ tile_i' = tile_i + 1
          /\ UNCHANGED gen_pc
    /\ UNCHANGED <<endpoint, tiles, max_requests>>
    /\ UNCHANGED notStreamVars

\* the tile loop of api_overpass_chunks.gen is over or was left: the done
\* record, with requests_made as its n (requested_tiles is Len(tiles))
ChunksDone ==
    /\ endpoint = "chunks"
    /\ \/ gen_pc = "after_loop"
       \/ gen_pc = "loop" /\ tile_i > Len(tiles)
    /\ lines' = Append(lines, Line("_meta", "done", 0, req_count))
    /\ gen_pc' = "done"
    /\ UNCHANGED <<endpoint, tiles, tile_i, req_count, max_requests, fetch_log>>
    /\ UNCHANGED notStreamVars

-----------------------------------------------------------------------------
(* The calls *)

InitProcess ==
    /\ json_string \in JsonInputs
    /\ pc = "start"
    /\ tags = <<>>
    /\ fn = "idle"

InitCall ==
    /\ json_string = NoData
    /\ pc = "idle"
    /\ tags \in TagMaps
    /\ fn = "ready"

Init ==
    /\ InitProcess \/ InitCall
    /\ osm_data = NoData
    /\ all_elements = <<>>
    /\ processed = <<>>
    /\ exc = ""
    /\ elev_log = <<>>
    /\ height_info = ZeroHeight
    /\ icon = ""
    /\ InitAIService
    /\ NoStream

\* osm_data = json.loads(json_string)
JsonLoads ==
    /\ pc = "start"
    /\ \/ /\ json_string.kind = "invalid"
          /\ pc' = "raised"
          /\ exc' = "json.JSONDecodeError"
          /\ UNCHANGED osm_data
       \/ /\ json_string.kind # "invalid"
          /\ pc' = "loaded"
          /\ osm_data' = json_string
          /\ UNCHANGED exc
    /\ UNCHANGED <<json_string, all_elements, processed, elev_log>>
    /\ UNCHANGED callVars
    /\ UNCHANGED serviceVars
    /\ UNCHANGED streamVars

\* all_elements = extract_elements(osm_data)
ExtractElements ==
    /\ pc = "loaded"
    /\ \/ /\ osm_data.kind # "object"          \* a list has no .get
          /\ pc' = "raised"
          /\ exc' = "AttributeError"
          /\ UNCHANGED all_elements
       \/ /\ osm_data.kind = "object"
          /\ pc' = "extracted"
          /\ all_elements' = extract_elements(osm_data)
          /\ UNCHANGED exc
    /\ UNCHANGED <<json_string, osm_data, processed, elev_log>>
    /\ UNCHANGED callVars
    /\ UNCHANGED serviceVars
    /\ UNCHANGED streamVars

\* one iteration of [process_element(el, ICON_MAP) for el in all_elements]
ProcessElement ==
    /\ pc = "extracted"
    /\ Len(processed) < Len(all_elements)
    /\ \E resp \in Responses :
        LET el == all_elements[Len(processed) + 1]
            r == process_element(el, ICON_MAP, resp)
        IN /\ elev_log' = Append(elev_log, ElevationCall(el, resp))
           /\ IF r.raised # ""
              THEN /\ pc' = "raised"
                   /\ exc' = r.raised
                   /\ UNCHANGED processed
              ELSE /\ processed' = Append(processed, r.feature)
                   /\ UNCHANGED <<pc, exc>>
    /\ UNCHANGED <<json_string, osm_data, all_elements>>
    /\ UNCHANGED callVars
    /\ UNCHANGED serviceVars
    /\ UNCHANGED streamVars

\* return processed
Return ==
    /\ pc = "extracted"
    /\ Len(processed) = Len(all_elements)
    /\ pc' = "returned"
    /\ UNCHANGED <<json_string, osm_data, all_elements, processed, exc, elev_log>>
    /\ UNCHANGED callVars
    /\ UNCHANGED serviceVars
    /\ UNCHANGED streamVars

\* a direct call parse_height(tags)
CallParseHeight ==
    /\ fn = "ready"
    /\ fn' = "parse_height"
    /\ height_info' = parse_height(tags)
    /\ UNCHANGED <<tags, icon>>
    /\ UNCHANGED pipelineVars
    /\ UNCHANGED serviceVars
    /\ UNCHANGED streamVars

\* a direct call get_icon_for_element({'tags': tags}, ICON_MAP)
CallGetIcon ==
    /\ fn = "ready"
    /\ fn' = "get_icon_for_element"
    /\ icon' = get_icon_for_element([tags |-> tags], ICON_MAP)
    /\ UNCHANGED <<tags, height_info>>
    /\ UNCHANGED pipelineVars
    /\ UNCHANGED serviceVars
    /\ UNCHANGED streamVars

Next ==
    \/ JsonLoads
    \/ ExtractElements
    \/ ProcessElement
    \/ Return
    \/ CallParseHeight
    \/ CallGetIcon

Spec == Init /\ [][Next]_vars

\* no process_osm_json call and no direct call is in progress
NoPipelineCall ==
    /\ json_string = NoData
    /\ pc = "idle"
    /\ osm_data = NoData
    /\ all_elements = <<>>
    /\ processed = <<>>
    /\ exc = ""
    /\ elev_log = <<>>
    /\ tags = <<>>
    /\ fn = "idle"
    /\ height_info = ZeroHeight
    /\ icon = ""

InitService == NoPipelineCall /\ InitAIService /\ NoStream

WorkerStep(w) ==
    \/ WorkerGet(w)
    \/ Acquire(w)
    \/ GenerateReturn(w)
    \/ GenerateRaise(w)
    \/ Timeout(w)
    \/ Backoff(w)

NextService ==
    \/ Start
    \/ Stop
    \/ StopReturn
    \/ \E id \in RequestIds : Submit(id)
    \/ \E w \in WorkerIds : WorkerStep(w)

SpecService == InitService /\ [][NextService]_vars

\* The event loop runs every task that can run, and the timers of wait_for
\* and of the backoff sleep fire.  The behaviours with at most
\* MaxFairRequests calls of submit.
FairNext ==
    \/ Start
    \/ Stop
    \/ StopReturn
    \/ \E id \in 1..MaxFairRequests : Submit(id)
    \/ \E w \in WorkerIds : WorkerStep(w)

FairService == InitService /\ [][FairNext]_vars /\ \A w \in WorkerIds : WF_vars(WorkerStep(w))

InitStreams ==
    /\ NoPipelineCall
    /\ InitAIService
    /\ InitOverpassStream \/ InitOverpassChunks

NextStreams ==
    \/ StreamTile
    \/ StreamDone
    \/ ChunksTile
    \/ ChunksDone

SpecStreams == InitStreams /\ [][NextStreams]_vars

-----------------------------------------------------------------------------
(* Properties *)

Ended == pc \in {"returned", "raised"}

ElevationErrors == {"ConnectionError", "requests.JSONDecodeError"}

\* extract_elements has returned
AfterExtract ==
    \/ pc \in {"extracted", "returned"}
    \/ pc = "raised" /\ exc \notin {"json.JSONDecodeError", "AttributeError"}

\* the input's records, and what the input says about them
InputElements == IF json_string.has_elements THEN json_string.elements ELSE <<>>

IsNodeId(els, nid) ==
    \E q \in 1..Len(els) : els[q].type = "node" /\ els[q].id = nid

HasResolvableRef(els, r) ==
    \E j \in 1..Len(r.nodes) : IsNodeId(els, r.nodes[j])

\* the way records with a resolvable reference, in input order
EmittedWays(els) ==
    SelectSeq(els, LAMBDA r : r.type = "way" /\ HasResolvableRef(els, r))

\* C1: a failing elevation lookup (network error, malformed response) never
\* leaves process: the call does not end with the lookup's exception.
C1_ElevationFailureStaysInside ==
    ~(pc = "raised" /\ exc \in ElevationErrors)

\* C2: on an input with a well-formed elements list and no failing elevation
\* lookup, process returns, with a feature for every extracted element whose
\* own steps succeed, even when a step (here the projection) fails for another.
C2_PerElementFailureIsolated ==
    (json_string.kind = "object" /\ json_string.has_elements /\ Ended
        /\ exc \notin ElevationErrors)
    => /\ pc = "returned"
       /\ \A i \in 1..Len(all_elements) :
            ~LogDomainError(Mean(all_elements[i].points, "lat"))
            => \E j \in 1..Len(processed) : processed[j].id = all_elements[i].id

\* C3: an input object without the `elements` key makes process end in a
\* failure, never in a returned list.
C3_MissingElementsIsFatal ==
    (json_string.kind = "object" /\ ~json_string.has_elements /\ Ended)
    => pc = "raised"

HeightInvariant(h) ==
    h.effective_height = (IF h.height - h.min_height > 0 THEN h.height - h.min_height ELSE 0)

\* C4: the result of parse_height and the height fields of every feature
\* satisfy effective_height = max(0, height - min_height).
C4_EffectiveHeightInvariant ==
    /\ fn = "parse_height" => HeightInvariant(height_info)
    /\ \A i \in 1..Len(processed) : HeightInvariant(processed[i])

C4_Witness ==
    /\ fn = "parse_height"
    /\ height_info.height > 0
    /\ height_info.height < height_info.min_height
    /\ height_info.effective_height = 0

\* C5: the three values parse_height returns are all non-negative.
C5_HeightsNonNegative ==
    fn = "parse_height"
    => /\ height_info.height >= 0
       /\ height_info.min_height >= 0
       /\ height_info.effective_height >= 0

\* every icon path the table holds
IconPaths == UNION {{ICON_MAP[k][v] : v \in DOMAIN ICON_MAP[k]} : k \in DOMAIN ICON_MAP}

\* C6: get_icon_for_element with ICON_MAP never fails and returns a non-empty
\* string that is an icon path of the table, for every tag mapping.
C6_IconTotal ==
    fn = "get_icon_for_element"
    => /\ icon # KeyError
       /\ icon # ""
       /\ icon \in IconPaths

C6_Witness ==
    /\ fn = "get_icon_for_element"
    /\ tags = <<>>
    /\ icon = "icons/default.svg"

\* C7: a way record is emitted exactly when one of its node references
\* resolves, and no emitted element has an empty point sequence.
C7_EmittedIffResolvable ==
    AfterExtract
    => LET els == InputElements
           R == {p \in 1..Len(els) : els[p].type = "way" /\ HasResolvableRef(els, els[p])}
       IN /\ Len(all_elements) = Cardinality(R)
          /\ {all_elements[i].id : i \in 1..Len(all_elements)} = {els[p].id : p \in R}
          /\ \A i \in 1..Len(all_elements) : all_elements[i].points # <<>>

C7_Witness ==
    /\ AfterExtract
    /\ Len(all_elements) = 1
    /\ Len(all_elements[1].points) = 1
    /\ \E p, q \in 1..Len(InputElements) :
        /\ InputElements[p].type = "way"
        /\ InputElements[p].nodes # <<>>
        /\ ~HasResolvableRef(InputElements, InputElements[p])
        /\ InputElements[q].type = "way"
        /\ Len(InputElements[q].nodes) = 2
        /\ HasResolvableRef(InputElements, InputElements[q])

\* C8: the points of an emitted element are the way's references with the
\* unresolvable ones removed, in order and with repetitions, each point being
\* the lat/lon of a node record with that id.
C8_PointsAreResolvedRefs ==
    AfterExtract
    => LET els == InputElements
           ways == EmittedWays(els)
       IN /\ Len(all_elements) = Len(ways)
          /\ \A i \in 1..Len(all_elements) :
                i <= Len(ways) =>
                LET kept == SelectSeq(ways[i].nodes, LAMBDA nid : IsNodeId(els, nid))
                    points == all_elements[i].points
                IN /\ Len(points) = Len(kept)
                   /\ \A j \in 1..Len(points) :
                        j <= Len(kept) =>
                        \E q \in 1..Len(els) :
                            /\ els[q].type = "node"
                            /\ els[q].id = kept[j]
                            /\ points[j] = [lat |-> els[q].lat, lon |-> els[q].lon]

C8_Witness ==
    /\ AfterExtract
    /\ \E i \in 1..Len(all_elements) :
        /\ i <= Len(EmittedWays(InputElements))
        /\ EmittedWays(InputElements)[i].nodes = <<2, 3, 2>>
        /\ Len(all_elements[i].points) = 2
        /\ all_elements[i].points[1] = all_elements[i].points[2]

\* C9: a returning process call returns one feature per way record with a
\* resolvable reference, in input order, each with that way's id; on an
\* empty elements list it does not fail and returns the empty list.
C9_OneFeaturePerWayInOrder ==
    /\ pc = "returned"
       => LET ways == EmittedWays(InputElements)
          IN /\ Len(processed) = Len(ways)
             /\ \A i \in 1..Len(processed) : i <= Len(ways) => processed[i].id = ways[i].id
    /\ (json_string.kind = "object" /\ json_string.has_elements /\ json_string.elements = <<>>)
       => /\ pc # "raised"
          /\ pc = "returned" => processed = <<>>

C9_Witness ==
    /\ pc = "returned"
    /\ Len(processed) = 2
    /\ processed[1].id = 7
    /\ processed[2].id = 3

TableKeys == {"amenity", "emergency", "natural"} \cup DOMAIN ICON_MAP

C11_ValueNotInspected ==
    (fn = "get_icon_for_element" /\ \E i \in 1..Len(tags) : tags[i].k \in TableKeys)
    => LET first == CHOOSE i \in 1..Len(tags) :
                        /\ tags[i].k \in TableKeys
                        /\ \A j \in 1..(i - 1) : tags[j].k \notin TableKeys
       IN tags[first].k \notin {"amenity", "emergency"}
          => /\ icon = ICON_MAP[tags[first].k]["_default"]
             /\ \A v \in {"yes", "abc", "restaurant", "_default", ""} :
                    get_icon_for_element(
                        [tags |-> [tags EXCEPT ![first] = Tag(tags[first].k, v)]],
                        ICON_MAP) = icon

C11_Witness ==
    /\ fn = "get_icon_for_element"
    /\ Len(tags) = 2
    /\ tags[1].k = "name"
    /\ tags[2] = Tag("shop", "abc")
    /\ icon = "icons/shop.svg"

Recreational ==
    {"bar", "bbq", "brothel", "cafe", "cinema", "food_court", "marketplace",
     "nightclub", "restaurant", "swinger_club", "theatre", "vending_machine"}

\* C12: when the first matching key is amenity, a recreational value gives
\* the shared recreational icon, another value of the amenity sub-table its
\* own entry, and an unlisted value the sub-table's _default icon.
C12_AmenityIcons ==
    (fn = "get_icon_for_element" /\ \E i \in 1..Len(tags) : tags[i].k \in TableKeys)
    => LET first == CHOOSE i \in 1..Len(tags) :
                        /\ tags[i].k \in TableKeys
                        /\ \A j \in 1..(i - 1) : tags[j].k \notin TableKeys
           v == tags[first].v
       IN tags[first].k = "amenity"
          => /\ v \in Recreational => icon = "icons/amenity_recreational.svg"
             /\ (v \notin Recreational /\ v \in DOMAIN ICON_MAP["amenity"])
                    => icon = ICON_MAP["amenity"][v]
             /\ v \notin DOMAIN ICON_MAP["amenity"]
                    => icon = "icons/amenity.svg" /\ icon # "icons/default.svg"

C12_Witness ==
    /\ fn = "get_icon_for_element"
    /\ tags = <<Tag("name", "abc"), Tag("amenity", "vending_machine")>>
    /\ icon = "icons/amenity_recreational.svg"

\* C13: a tag mapping none of whose keys is amenity, emergency, natural or a
\* top-level key of the table, the empty mapping included, gets the global
\* fallback icon.
C13_GlobalFallback ==
    (fn = "get_icon_for_element" /\ \A i \in 1..Len(tags) : tags[i].k \notin TableKeys)
    => icon = "icons/default.svg"

C13_Witness ==
    /\ fn = "get_icon_for_element"
    /\ Len(tags) >= 2
    /\ \A i \in 1..Len(tags) : tags[i].k \notin TableKeys
    /\ icon = "icons/default.svg"

\* C14: height is the parsed height tag when it parses, else building:levels
\* times 3 when that parses, else 10 with a building key and 0 without.
C14_HeightPrecedence ==
    fn = "parse_height"
    => LET h == safe_float(Get(tags, "height", ""))
           l == safe_float(Get(tags, "building:levels", ""))
       IN /\ ~h.isNone => height_info.height = h.val
          /\ (h.isNone /\ ~l.isNone) => height_info.height = l.val * 3
          /\ (h.isNone /\ l.isNone /\ HasKey(tags, "building")) => height_info.height = 10
          /\ (h.isNone /\ l.isNone /\ ~HasKey(tags, "building")) => height_info.height = 0

C14_Witness ==
    /\ fn = "parse_height"
    /\ Get(tags, "height", "") = "15m"
    /\ Get(tags, "building:levels", "") = "4"
    /\ HasKey(tags, "building")
    /\ height_info.height = 15

\* C15: min_height is the first tier that parses among min_height,
\* building:min_height and building:min_level times 3, else 0: an unparsable
\* min_height tag falls through to a parsable building:min_height.
C15_MinHeightTiers ==
    fn = "parse_height"
    => LET a == safe_float(Get(tags, "min_height", ""))
           b == safe_float(Get(tags, "building:min_height", ""))
           c == safe_float(Get(tags, "building:min_level", ""))
       IN height_info.min_height =
            (IF ~a.isNone THEN a.val
             ELSE IF ~b.isNone THEN b.val
             ELSE IF ~c.isNone THEN c.val * 3
             ELSE 0)

NumericKeys == {"height", "min_height", "building:levels", "building:min_level"}

\* the mapping without the numeric tags whose value is malformed
WithoutMalformed(t) ==
    SelectSeq(t, LAMBDA p : ~(p.k \in NumericKeys /\ safe_float(p.v).isNone))

\* C16: parse_height returns what it returns for the mapping with every
\* malformed height, min_height, building:levels and building:min_level tag
\* removed: a malformed value counts exactly as an absent tag.
C16_MalformedIsAbsent ==
    fn = "parse_height" => height_info = parse_height(WithoutMalformed(tags))

\* float of a value after removing surrounding whitespace and one trailing
\* "m" or "M" only
TrailingSuffixFloat(value) ==
    IF value \in NonStrings THEN None
    ELSE LET s0 == Strip(Lower(Chars[value]))
             s1 == IF s0 # <<>> /\ s0[Len(s0)] = "m"
                   THEN Strip(SubSeq(s0, 1, Len(s0) - 1))
                   ELSE s0
         IN Float(s1)

\* C17: a height value is parsed by removing only a trailing "m" and the
\* surrounding whitespace: "1m5" and "m12" count as absent, while "15m",
\* "15 M" and " 15 " give 15.
C17_OnlyTrailingSuffix ==
    (fn = "parse_height" /\ HasKey(tags, "height"))
    => LET h == TrailingSuffixFloat(Get(tags, "height", ""))
           l == safe_float(Get(tags, "building:levels", ""))
       IN height_info.height =
            (IF ~h.isNone THEN h.val
             ELSE IF ~l.isNone THEN l.val * 3
             ELSE IF HasKey(tags, "building") THEN 10 ELSE 0)

\* C18: a feature whose tags have no building key has height, min_height and
\* effective_height 0, whatever height tags it carries; a feature with a
\* building key has the heights resolved from its tags.
C18_HeightsOnlyForBuildings ==
    \A i \in 1..Len(processed) :
        LET f == processed[i]
            zero == f.height = 0 /\ f.min_height = 0 /\ f.effective_height = 0
        IN /\ (\A j \in 1..Len(f.tags) : f.tags[j].k # "building") => zero
           /\ (\E j \in 1..Len(f.tags) : f.tags[j].k = "building")
              => [height |-> f.height, min_height |-> f.min_height,
                  effective_height |-> f.effective_height] = parse_height(f.tags)

C18_Witness ==
    \E i, j \in 1..Len(processed) :
        /\ processed[i].tags = PlainTags
        /\ processed[i].height = 0
        /\ processed[j].tags = BuildingTags
        /\ processed[j].height = 15

\* the sum of one coordinate over the first n points
RECURSIVE Total(_, _, _)
Total(points, field, n) ==
    IF n = 0 THEN 0 ELSE Total(points, field, n - 1) + points[n][field]

\* C19: the centroid of a feature is the mean of its points' latitudes and
\* the mean of their longitudes: centroid x N = sum, N being the number of
\* resolved references of the way, repeated ones counted each time.
C19_CentroidIsMean ==
    \A i \in 1..Len(processed) :
        i <= Len(EmittedWays(InputElements)) =>
        LET f == processed[i]
            way == EmittedWays(InputElements)[i]
            N == Len(SelectSeq(way.nodes, LAMBDA nid : IsNodeId(InputElements, nid)))
        IN /\ f.centroid.lat.den > 0
           /\ f.centroid.lon.den > 0
           /\ f.centroid.lat.num * N = Total(f.points, "lat", Len(f.points)) * f.centroid.lat.den
           /\ f.centroid.lon.num * N = Total(f.points, "lon", Len(f.points)) * f.centroid.lon.den

C19_Witness ==
    \E i \in 1..Len(processed) :
        /\ i <= Len(EmittedWays(InputElements))
        /\ EmittedWays(InputElements)[i].nodes = <<2, 3, 2>>
        /\ processed[i].centroid.lat = [num |-> 60, den |-> 2]
        /\ processed[i].centroid.lon = [num |-> 80, den |-> 2]

\* json.loads has returned
AfterLoad ==
    \/ pc \in {"loaded", "extracted", "returned"}
    \/ pc = "raised" /\ exc # "json.JSONDecodeError"

\* C20: every feature carries the tag mapping of its way (the empty mapping
\* when the way record has none) and the extracted point sequence, and the
\* decoded input is still what was passed in.
C20_TagsAndPointsCarried ==
    /\ \A i \in 1..Len(processed) :
        i <= Len(EmittedWays(InputElements)) =>
        LET way == EmittedWays(InputElements)[i]
        IN /\ processed[i].tags = (IF way.has_tags THEN way.tags ELSE <<>>)
           /\ processed[i].points = all_elements[i].points
    /\ AfterLoad => osm_data = json_string

C20_Witness ==
    /\ pc = "returned"
    /\ osm_data = json_string
    /\ \E i, j \in 1..Len(processed) :
        /\ i <= Len(EmittedWays(InputElements))
        /\ ~EmittedWays(InputElements)[i].has_tags
        /\ processed[i].tags = <<>>
        /\ processed[j].tags = BuildingTags

\* C21: during a process call the elevation lookups are made one per
\* extracted element, in the order of the elements, each with the centroid
\* of its element, never more often than there are emitted ways; a feature's
\* base_elev is what its lookup returned, and a returning call has made
\* exactly one lookup per feature of the output list.
C21_OneLookupPerElement ==
    /\ Len(elev_log) <= Len(all_elements)
    /\ Len(processed) <= Len(elev_log)
    /\ Len(elev_log) <= Len(processed) + 1
    /\ AfterExtract => Len(all_elements) = Len(EmittedWays(InputElements))
    /\ \A i \in 1..Len(elev_log) :
          i <= Len(all_elements)
          => /\ elev_log[i].lat = Mean(all_elements[i].points, "lat")
             /\ elev_log[i].lon = Mean(all_elements[i].points, "lon")
    /\ \A i \in 1..Len(processed) :
          i <= Len(elev_log)
          => /\ processed[i].base_elev = elev_log[i].returned
             /\ processed[i].centroid = [lat |-> elev_log[i].lat, lon |-> elev_log[i].lon]
    /\ pc = "returned" => Len(elev_log) = Len(processed) /\ Len(processed) = Len(all_elements)

C21_Witness ==
    /\ pc = "returned"
    /\ Len(elev_log) = 2
    /\ elev_log[1].lat # elev_log[2].lat
    /\ elev_log[2].lat.den = 2
    /\ processed[1].base_elev = Some(5)
    /\ processed[2].base_elev = None

-----------------------------------------------------------------------------
(* AIService *)

Count(S) == Cardinality(S)

SentinelsQueued == Count({i \in 1..Len(queue) : queue[i] = Sentinel})
WorkersDone == {w \in WorkerIds : workers[w].pc = "done"}
Resolved(id) == reqs[id].result # "pending"

\* C22: stop() puts exactly worker_count sentinels, every worker that ends
\* has consumed exactly one of them, and when stop() has returned every
\* worker has ended, no sentinel is left, and every request put on the
\* queue before the sentinels has been dequeued and its future resolved.
C22_StopDrainsAndJoins ==
    /\ ~stopping => SentinelsQueued = 0 /\ WorkersDone = {}
    /\ stopping => SentinelsQueued + Count(WorkersDone) = WorkerCount
    /\ main = "stopped"
       => /\ WorkersDone = WorkerIds
          /\ SentinelsQueued = 0
          /\ \A id \in RequestIds :
                (reqs[id].state # "new" /\ ~reqs[id].late)
                => reqs[id].state = "finished" /\ Resolved(id)

C22_Witness ==
    /\ main = "stopped"
    /\ \A id \in RequestIds : reqs[id].state = "finished" /\ ~reqs[id].late
    /\ reqs[1].result = "error"
    /\ reqs[2].result = "response"

\* C23: for one request adapter.generate is called at most retries + 1
\* times with attempt numbers 0..retries; a response ends the calls at the
\* attempt that succeeded; an error dict of a request with an adapter comes
\* only after retries + 1 calls and carries attempt = retries; a request
\* without an adapter gets an error dict after no call at all.
C23_RetryBudget ==
    \A id \in RequestIds :
        /\ reqs[id].calls <= reqs[id].retries + 1
        /\ reqs[id].attempt <= reqs[id].retries
        /\ reqs[id].calls > 0 => reqs[id].calls = reqs[id].attempt + 1
        /\ reqs[id].result = "response"
           => /\ reqs[id].outcome = "returned"
              /\ reqs[id].calls = reqs[id].result_attempt + 1
        /\ (reqs[id].result = "error" /\ reqs[id].model \in Adapters)
           => /\ reqs[id].calls = reqs[id].retries + 1
              /\ reqs[id].result_attempt = reqs[id].retries
        /\ (reqs[id].state \in {"processing", "finished"} /\ reqs[id].model \notin Adapters)
           => /\ reqs[id].result = "error"
              /\ reqs[id].calls = 0

C23_Witness ==
    /\ reqs[1].model \in Adapters
    /\ reqs[1].retries = DemoRetries
    /\ reqs[1].result = "error"
    /\ reqs[1].calls = DemoRetries + 1
    /\ reqs[2].result = "response"
    /\ reqs[2].result_attempt = 1
    /\ reqs[3].model \notin Adapters
    /\ reqs[3].result = "error"

\* a request put on the queue before stop(), once the workers run
Awaited(id) == reqs[id].state # "new" /\ ~reqs[id].late /\ main # "constructed"

\* C24: whenever the workers run and a request put on the queue before
\* stop() is unresolved, eventually every such request has its future
\* resolved; a future is set exactly once; a worker ends only by taking a
\* sentinel, and the worker whose request raised is back at queue.get().
C24_EveryRequestResolved ==
    /\ (\E id \in RequestIds : Awaited(id) /\ ~Resolved(id))
         ~> (\A id \in RequestIds : Awaited(id) => Resolved(id))
    /\ [](\A id \in RequestIds :
             /\ reqs[id].sets <= 1
             /\ Resolved(id) <=> reqs[id].sets = 1
             /\ Resolved(id) <=> reqs[id].state = "finished")
    /\ [][\A w \in WorkerIds :
             /\ (workers[w].pc # "done" /\ workers'[w].pc = "done")
                => (workers[w].pc = "get" /\ queue # <<>> /\ Head(queue) = Sentinel)
             /\ (workers[w].req # 0 /\ reqs'[workers[w].req].outcome = "raised"
                   /\ reqs[workers[w].req].outcome = "")
                => workers'[w].pc = "get"]_vars

C24_Witness ==
    /\ main = "started"
    /\ reqs[1].model \in Adapters
    /\ reqs[1].outcome = "raised"
    /\ reqs[1].result = "error"
    /\ reqs[2].result = "response"
    /\ \A w \in WorkerIds : workers[w].pc = "get"

\* C25: whenever all workers have terminated, no request is left on the
\* queue with its future unresolved.
C25_NoRequestStranded ==
    WorkersDone = WorkerIds
    => \A id \in RequestIds : reqs[id].state = "queued" => Resolved(id)

\* C26: in every state metrics.processed is the number of requests whose
\* processing returned a response and metrics.failed the number whose
\* processing raised; every request that left processing is in exactly one
\* of the two.
C26_MetricsExact ==
    /\ metrics.processed = Count({id \in RequestIds : reqs[id].outcome = "returned"})
    /\ metrics.failed = Count({id \in RequestIds : reqs[id].outcome = "raised"})
    /\ metrics.processed + metrics.failed
         = Count({id \in RequestIds : reqs[id].state = "finished"})

C26_Witness ==
    /\ metrics.processed = 2
    /\ metrics.failed = 1
    /\ main = "started"

InSection(a) ==
    {w \in WorkerIds : workers[w].pc = "generate" /\ reqs[workers[w].req].model = a}

\* C27: never more than worker_count requests are being processed; never
\* more than `concurrency` generate calls of one adapter are inside its
\* guarded section; the free slots and the calls inside always add up to
\* `concurrency`, so a slot taken by a cancelled call is free again.
C27_ConcurrencyLimits ==
    /\ Count({id \in RequestIds : reqs[id].state = "processing"}) <= WorkerCount
    /\ \A a \in Adapters :
          /\ Count(InSection(a)) <= Concurrency[a]
          /\ semaphore[a] >= 0
          /\ semaphore[a] + Count(InSection(a)) = Concurrency[a]

C27_Witness ==
    /\ workers[1].pc = "generate"
    /\ reqs[workers[1].req].model = "local"
    /\ reqs[workers[1].req].attempt = 1
    /\ workers[2].pc = "acquire"
    /\ reqs[3].state = "queued"

-----------------------------------------------------------------------------
(* The NDJSON streams *)

GenEnded == gen_pc \in {"done", "raised"}

MetaLines == {i \in 1..Len(lines) : lines[i].kind = "_meta"}

DistOf(id) == (CHOOSE i \in 1..Len(tiles) : tiles[i].id = id)

LinesOf(kind, id) == {i \in 1..Len(lines) : lines[i].kind = kind /\ lines[i].tile = id}

FetchesOf(query, id) ==
    {i \in 1..Len(fetch_log) : fetch_log[i].query = query /\ fetch_log[i].tile = id}

\* C28: the requests_made of the final _meta line of an overpass_chunks
\* stream never exceeds max_requests.
C28_BudgetRespected ==
    (endpoint = "chunks" /\ gen_pc = "done")
    => /\ lines[Len(lines)].kind = "_meta"
       /\ lines[Len(lines)].n <= max_requests

\* C29: when a generator of overpass_stream or overpass_chunks has ended,
\* its last line is the one _meta record with status done.
C29_StreamEndsWithDone ==
    (endpoint # "none" /\ GenEnded)
    => /\ lines # <<>>
       /\ MetaLines = {Len(lines)}
       /\ lines[Len(lines)].what = "done"

\* C30: overpass_chunks visits the tiles in nondecreasing distance; a tile
\* whose ids-only query succeeded has exactly one _tile_summary line, ahead
\* of its feature lines; feature lines and a full-geometry fetch exist only
\* for a tile whose summary counts between 1 and 1500 elements.
C30_SummaryThenFeatures ==
    endpoint = "chunks"
    => /\ \A i, j \in 1..Len(lines) :
             (i < j /\ lines[i].tile # 0 /\ lines[j].tile # 0)
             => tiles[DistOf(lines[i].tile)].center_dist <= tiles[DistOf(lines[j].tile)].center_dist
       /\ \A i, j \in 1..Len(tiles) :
             i < j => tiles[i].center_dist <= tiles[j].center_dist
       /\ \A t \in 1..Len(tiles) :
             LET id == tiles[t].id
                 summaries == LinesOf("_tile_summary", id)
             IN /\ Count(summaries) <= 1
                /\ (\E i \in FetchesOf("ids", id) : fetch_log[i].ok) <=> summaries # {}
                /\ \A f \in LinesOf("feature", id) :
                      \E s \in summaries :
                         s < f /\ lines[s].n >= 1 /\ lines[s].n <= FullFetchLimit
                /\ FetchesOf("geom", id) # {}
                   => \E s \in summaries : lines[s].n >= 1 /\ lines[s].n <= FullFetchLimit
                /\ (\E s \in summaries : lines[s].n = 0 \/ lines[s].n > FullFetchLimit)
                   => FetchesOf("geom", id) = {} /\ LinesOf("feature", id) = {}

C30_Witness ==
    /\ endpoint = "chunks"
    /\ gen_pc = "done"
    /\ Len(tiles) = 3
    /\ tiles[1].id = 2
    /\ tiles[1].center_dist < tiles[3].center_dist
    /\ LinesOf("feature", tiles[1].id) # {}
    /\ \E s \in LinesOf("_tile_summary", tiles[2].id) : lines[s].n > FullFetchLimit
    /\ LinesOf("_tile_summary", tiles[3].id) = {}
    /\ \E e \in LinesOf("_error", tiles[3].id) : lines[e].what = "request_budget_exceeded"

====
